---- MODULE Spec2Model ----
(***************************************************************************)
(* Message ingestion and sequential processing pipeline of src/index.js:   *)
(* the poller (pollMessages), the processing queue                         *)
(* (queueMessageProcessing, processMessageQueue), the command interpreter  *)
(* (parseCommand, generateCharacterPrompt) and the image pipeline          *)
(* (generateAndSendPicture).                                               *)
(*                                                                         *)
(* JavaScript runs the handlers on one thread: a handler runs without      *)
(* interruption from one `await` to the next.  Every action below is one   *)
(* such run: it starts where a timer fires or an awaited promise settles   *)
(* and ends at the next `await` (or at the end of the handler).            *)
(*                                                                         *)
(* A text is a sequence of whitespace-separated words.                     *)
(***************************************************************************)
EXTENDS Integers, Sequences, FiniteSets, TLC

(***************************************************************************)
(* Bounds of the model.  The thresholds of the pruning (1_000, 500 and 20  *)
(* in the code) are scaled down: the pruning is reached with a handful of  *)
(* messages and chats, and the properties are stated in terms of the       *)
(* scaled names.                                                           *)
(***************************************************************************)
\* poll ticks started in one behaviour
MaxPolls == 2
\* the same in the behaviours of SpecCtx
CtxPolls == 1
\* failures injected by the environment (bridge, AI backends) in one behaviour
MaxFaults == 2
\* the same in the behaviours of SpecCtx
CtxFaults == 2
\* the code's 1_000 (src/index.js:391, 398), scaled down
LedgerLimit == 2
\* the code's 500 (src/index.js:392, 399), scaled down
LedgerKeep == 1
\* the code's 20 (src/index.js:405, 407), scaled down
MaxChats == 1
\* process start, Date.now() at src/index.js:334
StartupTime == 2

\* context window of a chat, src/index.js:160-161
CtxMax == 10

(***************************************************************************)
(* Texts.                                                                  *)
(***************************************************************************)
\* String.prototype.toLowerCase on one word
Lower(w) ==
  CASE w = "@AVA" -> "@ava"
    [] w = "@Character" -> "@character"
    [] w = "@UNHINGE" -> "@unhinge"
    [] w = "TRUE" -> "true"
    [] OTHER -> w

TRIGGER == Lower("@ava")

TRIGGERS == {TRIGGER, "@character", "@unhinge"}

\* TRIGGERS.some(trigger => lowerText.includes(trigger.toLowerCase()))
ContainsTrigger(text) ==
  \E i \in 1..Len(text) : \E t \in TRIGGERS : Lower(text[i]) = Lower(t)

\* positions where /<cmd>\s+(.+)/i matches: the command word, white space,
\* and at least one more character
CmdAt(text, cmd) == {i \in 1..(Len(text) - 1) : Lower(text[i]) = cmd}

Min(S) == CHOOSE x \in S : \A y \in S : x <= y

\* the capture group (.+) of the leftmost match, trimmed
CmdArg(text, cmd) == SubSeq(text, Min(CmdAt(text, cmd)) + 1, Len(text))

\* the switch of parseCommand: the first case that tests true
ParseKind(text) ==
  IF CmdAt(text, "@character") # {} THEN "character"
  ELSE IF CmdAt(text, "@unhinge") # {} THEN "unhinge"
  ELSE "normal"

\* val.trim().toLowerCase() === "true"
UnhingeFlag(text) ==
  LET val == CmdArg(text, "@unhinge")
  IN  Len(val) = 1 /\ Lower(val[1]) = "true"

SIGNATURE == "- MyAI"

ConfirmText(description) ==
  <<"Character updated!">> \o description \o <<SIGNATURE>>

PictureSent == <<"Generated and sent a picture!", SIGNATURE>>

PictureFailed == <<"Failed to generate image.", SIGNATURE>>

ErrorText == <<"Error processing message.", SIGNATURE>>

\* reply.includes("- MyAI") ? reply : `${reply} - MyAI`
Signed(reply) ==
  IF \E i \in 1..Len(reply) : reply[i] = SIGNATURE THEN reply
  ELSE Append(reply, SIGNATURE)

SENTINEL == "[REQUEST_PICTURE]"

HasSentinel(content) == \E i \in 1..Len(content) : content[i] = SENTINEL

\* content.replace('[REQUEST_PICTURE]', '').trim(): the first occurrence goes
StripSentinel(content) ==
  LET k == Min({i \in 1..Len(content) : content[i] = SENTINEL})
  IN  SubSeq(content, 1, k - 1) \o SubSeq(content, k + 1, Len(content))

(***************************************************************************)
(* Personas.                                                               *)
(***************************************************************************)
NoPersona == [src |-> "none", desc |-> <<>>]

EmptyPersona == [src |-> "empty", desc |-> <<>>]

DefaultPersona == [src |-> "default", desc |-> <<>>]

\* the catch of generateCharacterPrompt
FallbackPersona(description) == [src |-> "fallback", desc |-> description]

\* what a backend may answer to the persona request: a prompt, or a
\* completion that trims to the empty string
SynthAnswers(backend, description) ==
  {[src |-> backend, desc |-> description], EmptyPersona}

\* chatCharacters.get(chatGuid) || "You are MyAI, ..."
PersonaFor(chars, chat) ==
  IF chars[chat] = NoPersona \/ chars[chat] = EmptyPersona THEN DefaultPersona
  ELSE chars[chat]

(***************************************************************************)
(* Insertion-ordered sets and maps (JavaScript Set and Map).               *)
(***************************************************************************)
InSeq(x, s) == \E i \in 1..Len(s) : s[i] = x

\* Array.from(set).slice(-500), then clear and add back
LastOf(s, n) == IF Len(s) <= n THEN s ELSE SubSeq(s, Len(s) - n + 1, Len(s))

\* the pruning with slice(0, 500): the oldest stay
PruneLedgerOldest(s) == IF Len(s) > LedgerLimit THEN SubSeq(s, 1, LedgerKeep) ELSE s

PruneLedger(s) == IF Len(s) > LedgerLimit THEN LastOf(s, LedgerKeep) ELSE s

HasChat(ctxs, chat) == \E i \in 1..Len(ctxs) : ctxs[i].chat = chat

RefOf(ctxs, chat) == (CHOOSE e \in {ctxs[i] : i \in 1..Len(ctxs)} : e.chat = chat).ref

\* the pruning that deletes chatKeys.slice(20): the first 20 stay
PruneChatsNewest(ctxs) ==
  IF Len(ctxs) > MaxChats THEN SubSeq(ctxs, 1, MaxChats) ELSE ctxs

\* chatKeys.slice(0, chatKeys.length - 20) are deleted: the last 20 stay
PruneChats(ctxs) == IF Len(ctxs) > MaxChats THEN LastOf(ctxs, MaxChats) ELSE ctxs

FreshRef(hp) == Min({r \in 1..(Cardinality(DOMAIN hp) + 1) : r \notin DOMAIN hp})

(***************************************************************************)
(* State.                                                                  *)
(***************************************************************************)
VARIABLES
  bridge,             \* the messages the bridge holds, oldest first
  pending,            \* the messages still to arrive at the bridge, in order
  ticks,              \* the poll ticks in flight (callbacks of setInterval)
  seen,               \* ledger `seen`, in insertion order
  processedMessages,  \* ledger `processedMessages`, in insertion order
  chatContexts,       \* Map chat -> context array, in insertion order of keys
  arrays,             \* the context arrays: reference -> turns
  chatCharacters,     \* Map chat -> persona
  USE_OLLAMA,         \* backend selection flag
  messageQueue,       \* the processing queue
  isProcessingQueue,  \* reentrancy guard of the drain loop
  loops,              \* the activations of processMessageQueue in flight
  enqLog,             \* history: every item pushed on the queue, in order
  sent,               \* history: every delivery the bridge accepted, in order
  asked,              \* history: every chat request sent to a backend, in order
  stored,             \* history: every persona a command stored, in order
  lastTick,           \* history: how the last finished tick ended
  polls,              \* ticks the timer may still start
  faults              \* failures the environment may still inject

vars == <<bridge, pending, ticks, seen, processedMessages, chatContexts, arrays,
          chatCharacters, USE_OLLAMA, messageQueue, isProcessingQueue, loops,
          enqLog, sent, asked, stored, lastTick, polls, faults>>

Chats == {"c1", "c2"}

NoMsg == [guid |-> 0, chat |-> "", text |-> <<>>, dateCreated |-> 0, dateDelivered |-> 0]

NoItem == [n |-> 0, guid |-> 0, chatGuid |-> "", text |-> <<>>]

Remove(s, i) == SubSeq(s, 1, i - 1) \o SubSeq(s, i + 1, Len(s))

Put(s, i, x) == IF i > Len(s) THEN Append(s, x) ELSE [s EXCEPT ![i] = x]

\* msg.dateCreated || msg.dateDelivered || 0
MessageTime(msg) ==
  IF msg.dateCreated # 0 THEN msg.dateCreated ELSE msg.dateDelivered

\* limit of the chat query and of the message query
ChatLimit == 500

MessageLimit == 50

RECURSIVE ChatsByLast(_, _)
\* sort: "lastmessage": the chat of the newest message first
ChatsByLast(b, acc) ==
  IF b = <<>> THEN acc
  ELSE LET c == b[Len(b)].chat
           rest == SubSeq(b, 1, Len(b) - 1)
       IN  IF InSeq(c, acc) THEN ChatsByLast(rest, acc)
           ELSE ChatsByLast(rest, Append(acc, c))

\* data?.data || [] of the chat query
QueryChats == SubSeq(ChatsByLast(bridge, <<>>), 1,
                     IF Len(ChatsByLast(bridge, <<>>)) > ChatLimit THEN ChatLimit
                     ELSE Len(ChatsByLast(bridge, <<>>)))

\* the newest 50 messages of the chat, newest first, after messages.reverse()
QueryMessages(chat) ==
  LastOf(SelectSeq(bridge, LAMBDA m : m.chat = chat), MessageLimit)

(***************************************************************************)
(* The drain loop, processMessageQueue.  D is the state it shares with the *)
(* poller: q the queue, flag the guard, ctxs and hp the context store,     *)
(* uo the backend flag, lps the activations.                               *)
(***************************************************************************)
Cur == [q |-> messageQueue, flag |-> isProcessingQueue, ctxs |-> chatContexts,
        hp |-> arrays, uo |-> USE_OLLAMA, lps |-> loops]

Becomes(D) ==
  /\ messageQueue' = D.q
  /\ isProcessingQueue' = D.flag
  /\ chatContexts' = D.ctxs
  /\ arrays' = D.hp
  /\ USE_OLLAMA' = D.uo
  /\ loops' = D.lps

\* arrays nothing refers to any more are garbage
Collect(hp, ctxs, lps) ==
  LET live == {ctxs[i].ref : i \in 1..Len(ctxs)} \cup {lps[i].ctx : i \in 1..Len(lps)}
  IN  [r \in (DOMAIN hp) \cap live |-> hp[r]]

\* the hosted backend whatever the flag
SelectedHosted(uo) == "hosted"

\* if (USE_OLLAMA) ... else ..., lines 43 and 169
Selected(uo) == IF uo THEN "local" ELSE "hosted"

NoRequest == [persona |-> NoPersona, context |-> <<>>]

\* one activation at an await: pc is the await it is suspended at
Loop(pc, item, ctx, backend, arg) ==
  [pc |-> pc, item |-> item, ctx |-> ctx, backend |-> backend, arg |-> arg,
   reply |-> <<>>, request |-> NoRequest]

\* lines 141-153: shift, find or create the context, call parseCommand, which
\* runs to its first await
Shift(D, i) ==
  LET item == Head(D.q)
      has  == HasChat(D.ctxs, item.chatGuid)
      r    == IF has THEN RefOf(D.ctxs, item.chatGuid) ELSE FreshRef(D.hp)
      ctxs == IF has THEN D.ctxs
              ELSE Append(D.ctxs, [chat |-> item.chatGuid, ref |-> r])
      hp   == IF has THEN D.hp ELSE (r :> <<>>) @@ D.hp
      kind == ParseKind(item.text)
      loop == CASE kind = "character" ->
                     Loop("synth", item, r, Selected(D.uo),
                          CmdArg(item.text, "@character"))
                [] kind = "unhinge" -> Loop("cmdret", item, r, "", <<>>)
                [] OTHER -> Loop("parsed", item, r, "", <<>>)
      lps  == Put(D.lps, i, loop)
  IN  [q |-> Tail(D.q), flag |-> D.flag, ctxs |-> ctxs,
       hp |-> Collect(hp, ctxs, lps),
       uo |-> IF kind = "unhinge" THEN UnhingeFlag(item.text) ELSE D.uo,
       lps |-> lps]

\* line 140 and line 286: the while test, taken by activation i
WhileHead(D, i) ==
  IF Len(D.q) > 0 THEN Shift(D, i)
  ELSE [D EXCEPT !.flag = FALSE,
                 !.lps = Remove(D.lps, i),
                 !.hp = Collect(D.hp, D.ctxs, Remove(D.lps, i))]

\* processMessageQueue without the test of the guard
ProcessMessageQueueUnguarded(D) ==
  IF Len(D.q) = 0 THEN D
  ELSE WhileHead([D EXCEPT !.flag = TRUE], Len(D.lps) + 1)

\* lines 135-138: a call of processMessageQueue
ProcessMessageQueue(D) ==
  IF D.flag \/ Len(D.q) = 0 THEN D
  ELSE WhileHead([D EXCEPT !.flag = TRUE], Len(D.lps) + 1)

\* queueMessageProcessing with unshift in place of push
QueueMessageProcessingUnshift(D, n, msg) ==
  ProcessMessageQueue(
    [D EXCEPT !.q = <<[n |-> n, guid |-> msg.guid,
                       chatGuid |-> msg.chat, text |-> msg.text]>> \o D.q])

\* lines 117-133
QueueMessageProcessing(D, n, msg) ==
  ProcessMessageQueue(
    [D EXCEPT !.q = Append(D.q, [n |-> n, guid |-> msg.guid,
                                 chatGuid |-> msg.chat, text |-> msg.text])])

(***************************************************************************)
(* The poller, the callback of setInterval in pollMessages.                *)
(***************************************************************************)
RECURSIVE ScanAnyAge(_, _, _)
\* the scan without the test of the startup time
ScanAnyAge(msgs, sn, pr) ==
  IF msgs = <<>> THEN [seen |-> sn, processed |-> pr, rest |-> <<>>, hit |-> NoMsg]
  ELSE LET msg == Head(msgs)
       IN  IF msg.guid = 0 \/ InSeq(msg.guid, sn) THEN ScanAnyAge(Tail(msgs), sn, pr)
           ELSE IF ContainsTrigger(msg.text) /\ ~InSeq(msg.guid, pr)
                THEN [seen |-> Append(sn, msg.guid),
                      processed |-> Append(pr, msg.guid),
                      rest |-> Tail(msgs), hit |-> msg]
           ELSE ScanAnyAge(Tail(msgs), Append(sn, msg.guid), pr)

RECURSIVE Scan(_, _, _)
\* lines 366-386: the messages of one chat, oldest first, up to the first
\* one that is queued (queueMessageProcessing is awaited) or to the end
Scan(msgs, sn, pr) ==
  IF msgs = <<>> THEN [seen |-> sn, processed |-> pr, rest |-> <<>>, hit |-> NoMsg]
  ELSE LET msg == Head(msgs)
       IN  IF msg.guid = 0 \/ InSeq(msg.guid, sn) THEN Scan(Tail(msgs), sn, pr)
           ELSE IF MessageTime(msg) < StartupTime
                THEN Scan(Tail(msgs), Append(sn, msg.guid), pr)
           ELSE IF ContainsTrigger(msg.text) /\ ~InSeq(msg.guid, pr)
                THEN [seen |-> Append(sn, msg.guid),
                      processed |-> Append(pr, msg.guid),
                      rest |-> Tail(msgs), hit |-> msg]
           ELSE Scan(Tail(msgs), Append(sn, msg.guid), pr)

Tick(pc, chats, chat, msgs) == [pc |-> pc, chats |-> chats, chat |-> chat, msgs |-> msgs]

\* how a tick ended: the ledgers and the context store before the pruning of
\* a tick that ended without an error; the number of items enqueued so far
\* and of ticks still to start at the catch of a tick that failed
NoTick == [end |-> "none", seenIn |-> <<>>, procIn |-> <<>>, chatsIn |-> <<>>,
           enqueued |-> 0, polls |-> 0]

\* line 336: the timer fires, the chat query is sent; the ticks before it
\* may still be in flight
TickFire ==
  /\ polls > 0
  /\ ticks' = Append(ticks, Tick("chatq", <<>>, "", <<>>))
  /\ polls' = polls - 1
  /\ UNCHANGED <<bridge, pending, seen, processedMessages, chatContexts, arrays,
                 chatCharacters, USE_OLLAMA, messageQueue, isProcessingQueue,
                 loops, enqLog, sent, asked, stored, lastTick, faults>>

\* the end of a tick that also deletes the override of every chat it evicts
TickEndForgets(i, sn, pr) ==
  /\ ticks' = Remove(ticks, i)
  /\ seen' = PruneLedger(sn)
  /\ processedMessages' = PruneLedger(pr)
  /\ chatContexts' = PruneChats(chatContexts)
  /\ arrays' = Collect(arrays, PruneChats(chatContexts), loops)
  /\ chatCharacters' = [c \in Chats |->
                          IF HasChat(chatContexts, c) /\ ~HasChat(chatContexts', c)
                          THEN NoPersona ELSE chatCharacters[c]]
  /\ lastTick' = [NoTick EXCEPT !.end = "ok", !.seenIn = sn, !.procIn = pr,
                                !.chatsIn = chatContexts]
  /\ UNCHANGED <<bridge, pending, USE_OLLAMA, messageQueue,
                 isProcessingQueue, loops, enqLog, sent, asked, stored, polls, faults>>

\* lines 390-409: the end of a tick that did not throw; sn and pr are the
\* ledgers after the last message
TickEnd(i, sn, pr) ==
  /\ ticks' = Remove(ticks, i)
  /\ seen' = PruneLedger(sn)
  /\ processedMessages' = PruneLedger(pr)
  /\ chatContexts' = PruneChats(chatContexts)
  /\ arrays' = Collect(arrays, PruneChats(chatContexts), loops)
  /\ lastTick' = [NoTick EXCEPT !.end = "ok", !.seenIn = sn, !.procIn = pr,
                                !.chatsIn = chatContexts]
  /\ UNCHANGED <<bridge, pending, chatCharacters, USE_OLLAMA, messageQueue,
                 isProcessingQueue, loops, enqLog, sent, asked, stored, polls, faults>>

\* line 353: the message query of the next chat is sent
TickNextChat(i, sn, pr) ==
  /\ ticks' = [ticks EXCEPT ![i] = Tick("msgq", Tail(ticks[i].chats),
                                         Head(ticks[i].chats), <<>>)]
  /\ seen' = sn
  /\ processedMessages' = pr
  /\ UNCHANGED <<bridge, pending, chatContexts, arrays, chatCharacters, USE_OLLAMA,
                 messageQueue, isProcessingQueue, loops, enqLog, sent, asked, stored,
                 lastTick, polls, faults>>

\* lines 339-351: the chat query returns
ChatQueryReturns(i) ==
  /\ ticks[i].pc = "chatq"
  /\ IF QueryChats = <<>> THEN TickEnd(i, seen, processedMessages)
     ELSE /\ ticks' = [ticks EXCEPT ![i] = Tick("msgq", Tail(QueryChats),
                                                Head(QueryChats), <<>>)]
          /\ UNCHANGED <<bridge, pending, seen, processedMessages, chatContexts, arrays,
                         chatCharacters, USE_OLLAMA, messageQueue,
                         isProcessingQueue, loops, enqLog, sent, asked, stored, lastTick,
                         polls, faults>>

\* the catch of the tick with clearInterval: no tick starts any more
QueryFailsStops(i) ==
  /\ ticks[i].pc \in {"chatq", "msgq"}
  /\ faults > 0
  /\ faults' = faults - 1
  /\ ticks' = Remove(ticks, i)
  /\ lastTick' = [NoTick EXCEPT !.end = "error", !.enqueued = Len(enqLog),
                                !.polls = polls]
  /\ polls' = 0
  /\ UNCHANGED <<bridge, pending, seen, processedMessages, chatContexts, arrays,
                 chatCharacters, USE_OLLAMA, messageQueue, isProcessingQueue,
                 loops, enqLog, sent, asked, stored>>

\* lines 410-413: a query of the tick throws; the catch ends the tick
QueryFails(i) ==
  /\ ticks[i].pc \in {"chatq", "msgq"}
  /\ faults > 0
  /\ faults' = faults - 1
  /\ ticks' = Remove(ticks, i)
  /\ lastTick' = [NoTick EXCEPT !.end = "error", !.enqueued = Len(enqLog),
                                !.polls = polls]
  /\ UNCHANGED <<bridge, pending, seen, processedMessages, chatContexts, arrays,
                 chatCharacters, USE_OLLAMA, messageQueue, isProcessingQueue,
                 loops, enqLog, sent, asked, stored, polls>>

\* the scan with the marking of the ledgers put off until after the await
\* of the enqueue
TickScanMarksLater(i, msgs) ==
  LET s == Scan(msgs, seen, processedMessages)
  IN  IF s.hit # NoMsg
      THEN /\ Becomes(QueueMessageProcessing(Cur, Len(enqLog) + 1, s.hit))
           /\ enqLog' = Append(enqLog, [guid |-> s.hit.guid, chatGuid |-> s.hit.chat,
                                        text |-> s.hit.text])
           /\ ticks' = [ticks EXCEPT ![i] = Tick("enq", ticks[i].chats,
                                                  ticks[i].chat, s.rest)]
           /\ UNCHANGED <<bridge, pending, seen, processedMessages, chatCharacters,
                          sent, asked, stored, lastTick, polls, faults>>
      ELSE IF ticks[i].chats # <<>> THEN TickNextChat(i, s.seen, s.processed)
      ELSE TickEnd(i, s.seen, s.processed)

\* lines 366-388 from the message `msgs` starts with, to the next await
TickScan(i, msgs) ==
  LET s == Scan(msgs, seen, processedMessages)
  IN  IF s.hit # NoMsg
      THEN /\ Becomes(QueueMessageProcessing(Cur, Len(enqLog) + 1, s.hit))
           /\ enqLog' = Append(enqLog, [guid |-> s.hit.guid, chatGuid |-> s.hit.chat,
                                        text |-> s.hit.text])
           /\ ticks' = [ticks EXCEPT ![i] = Tick("enq", ticks[i].chats,
                                                  ticks[i].chat, s.rest)]
           /\ seen' = s.seen
           /\ processedMessages' = s.processed
           /\ UNCHANGED <<bridge, pending, chatCharacters, sent, asked, stored, lastTick, polls, faults>>
      ELSE IF ticks[i].chats # <<>> THEN TickNextChat(i, s.seen, s.processed)
      ELSE TickEnd(i, s.seen, s.processed)

\* line 364: the message query returns
MessageQueryReturns(i) ==
  /\ ticks[i].pc = "msgq"
  /\ TickScan(i, QueryMessages(ticks[i].chat))

\* line 385: the awaited queueMessageProcessing has returned
EnqueueReturns(i) ==
  /\ ticks[i].pc = "enq"
  /\ TickScan(i, ticks[i].msgs)

(***************************************************************************)
(* The steps of one activation of processMessageQueue, from await to       *)
(* await.                                                                  *)
(***************************************************************************)
Turn(role, content) == [role |-> role, content |-> content]

Delivery(l, kind, body) ==
  [n |-> l.item.n, chat |-> l.item.chatGuid, kind |-> kind, body |-> body]

PollerVars == <<bridge, pending, ticks, seen, processedMessages, lastTick, polls>>

Logs == <<asked, stored>>

\* the activation moves on; nothing else changes
Step(i, l) ==
  /\ loops' = [loops EXCEPT ![i] = l]
  /\ UNCHANGED <<chatContexts, chatCharacters, USE_OLLAMA, messageQueue,
                 isProcessingQueue, enqLog>>

\* lines 270-280: the catch of the item posts the failure reply
Caught(i) ==
  /\ faults > 0
  /\ faults' = faults - 1
  /\ Step(i, [loops[i] EXCEPT !.pc = "failpost"])
  /\ UNCHANGED <<arrays, sent>>

\* generateCharacterPrompt without its try: a failure of the persona request
\* reaches the catch of the item
SynthReturnsUncaught(i) ==
  LET l == loops[i]
  IN  /\ l.pc = "synth"
      /\ \/ /\ \E p \in SynthAnswers(l.backend, l.arg) :
                 chatCharacters' = [chatCharacters EXCEPT ![l.item.chatGuid] = p]
            /\ arrays' = [arrays EXCEPT ![l.ctx] = <<>>]
            /\ loops' = [loops EXCEPT ![i].pc = "confirm"]
            /\ stored' = Append(stored, [n |-> l.item.n, chat |-> l.item.chatGuid,
                                         backend |-> l.backend,
                                         persona |-> chatCharacters'[l.item.chatGuid]])
            /\ UNCHANGED <<chatContexts, USE_OLLAMA, messageQueue, isProcessingQueue,
                           enqLog, sent, asked, faults>>
         \/ /\ Caught(i)
            /\ UNCHANGED Logs
      /\ UNCHANGED PollerVars

\* lines 83-98: the persona request settles (generateCharacterPrompt turns
\* a failure into the fallback); the persona is stored, the context is
\* emptied and the confirmation is posted
SynthReturns(i) ==
  LET l == loops[i]
  IN  /\ l.pc = "synth"
      /\ \/ /\ \E p \in SynthAnswers(l.backend, l.arg) :
                 chatCharacters' = [chatCharacters EXCEPT ![l.item.chatGuid] = p]
            /\ UNCHANGED faults
         \/ /\ faults > 0
            /\ faults' = faults - 1
            /\ chatCharacters' =
                 [chatCharacters EXCEPT ![l.item.chatGuid] = FallbackPersona(l.arg)]
      /\ arrays' = [arrays EXCEPT ![l.ctx] = <<>>]
      /\ loops' = [loops EXCEPT ![i].pc = "confirm"]
      /\ stored' = Append(stored, [n |-> l.item.n, chat |-> l.item.chatGuid,
                                   backend |-> l.backend,
                                   persona |-> chatCharacters'[l.item.chatGuid]])
      /\ UNCHANGED <<chatContexts, USE_OLLAMA, messageQueue, isProcessingQueue,
                     enqLog, sent, asked>>
      /\ UNCHANGED PollerVars

\* lines 90-100: the confirmation was delivered, or the post threw
ConfirmReturns(i) ==
  LET l == loops[i]
  IN  /\ l.pc = "confirm"
      /\ \/ /\ sent' = Append(sent, Delivery(l, "confirm", ConfirmText(l.arg)))
            /\ Step(i, [l EXCEPT !.pc = "cmdret"])
            /\ UNCHANGED <<arrays, faults>>
         \/ Caught(i)
      /\ UNCHANGED <<PollerVars, Logs>>

\* lines 153-155 and 140: parseCommand returned true; `continue` goes to
\* the while test
CommandReturns(i) ==
  /\ loops[i].pc = "cmdret"
  /\ Becomes(WhileHead(Cur, i))
  /\ UNCHANGED <<chatCharacters, enqLog, sent, faults>>
  /\ UNCHANGED <<PollerVars, Logs>>

\* lines 153-175 and 208-210: parseCommand returned false; the user turn is
\* pushed, the window is cut and the request goes to the selected backend
ParseReturns(i) ==
  LET l == loops[i]
      pushed == Append(arrays[l.ctx], Turn("user", l.item.text))
      context == IF Len(pushed) > CtxMax THEN LastOf(pushed, CtxMax) ELSE pushed
  IN  /\ l.pc = "parsed"
      /\ arrays' = [arrays EXCEPT ![l.ctx] = context]
      /\ Step(i, [l EXCEPT !.pc = "ai",
                           !.backend = Selected(USE_OLLAMA),
                           !.request = [persona |-> PersonaFor(chatCharacters, l.item.chatGuid),
                                        context |-> context]])
      /\ asked' = Append(asked, [n |-> l.item.n, chat |-> l.item.chatGuid,
                                 backend |-> Selected(USE_OLLAMA),
                                 persona |-> PersonaFor(chatCharacters, l.item.chatGuid),
                                 context |-> context])
      /\ UNCHANGED <<sent, stored, faults>>
      /\ UNCHANGED PollerVars

\* what a backend may answer: the hosted one a content and tool calls, the
\* local one a content only
Answers(backend) ==
  IF backend = "hosted"
  THEN {[content |-> <<"ok">>, tool_calls |-> <<>>],
        [content |-> <<>>, tool_calls |-> <<<<"bike">>>>]}
  ELSE {[content |-> <<"ok">>, tool_calls |-> <<>>],
        [content |-> <<SENTINEL, "bike">>, tool_calls |-> <<>>]}

\* the completion with the whole content as the description
CompletionRaw(backend, answer) ==
  IF backend = "local" /\ HasSentinel(answer.content)
  THEN [answer EXCEPT !.tool_calls = <<answer.content>>]
  ELSE answer

\* lines 189-206: the answer of the local backend as a completion
Completion(backend, answer) ==
  IF backend = "local" /\ HasSentinel(answer.content)
  THEN [answer EXCEPT !.tool_calls = <<StripSentinel(answer.content)>>]
  ELSE answer

\* lines 258-260: the assistant turn is pushed and the reply is posted
PostReply(i, l, reply) ==
  /\ arrays' = [arrays EXCEPT ![l.ctx] = Append(@, Turn("assistant", reply))]
  /\ Step(i, [l EXCEPT !.pc = "reply", !.reply = reply, !.arg = <<>>])

\* lines 241-248: the completion arrived, or the request threw
BackendReturns(i) ==
  LET l == loops[i]
  IN  /\ l.pc = "ai"
      /\ \/ \E a \in Answers(l.backend) :
              LET c == Completion(l.backend, a)
              IN  /\ IF c.tool_calls # <<>>
                     THEN /\ Step(i, [l EXCEPT !.pc = "generate", !.reply = c.content,
                                               !.arg = c.tool_calls[1]])
                          /\ UNCHANGED arrays
                     ELSE PostReply(i, l, c.content)
                  /\ UNCHANGED <<sent, faults>>
         \/ Caught(i)
      /\ UNCHANGED <<PollerVars, Logs>>

\* generateAndSendPicture without its try: the failure reaches the catch of
\* the item
PictureFailsUncaught(i) == Caught(i)

\* lines 324-327 and 251-252: generateAndSendPicture returns false
PictureFails(i) ==
  /\ faults > 0
  /\ faults' = faults - 1
  /\ PostReply(i, loops[i], PictureFailed)
  /\ UNCHANGED sent

\* lines 294-305: the image was generated, or the request threw
GenerateReturns(i) ==
  /\ loops[i].pc = "generate"
  /\ \/ /\ Step(i, [loops[i] EXCEPT !.pc = "download"])
        /\ UNCHANGED <<arrays, sent, faults>>
     \/ PictureFails(i)
  /\ UNCHANGED <<PollerVars, Logs>>

\* lines 305-321: the image was downloaded, or the request threw
DownloadReturns(i) ==
  /\ loops[i].pc = "download"
  /\ \/ /\ Step(i, [loops[i] EXCEPT !.pc = "upload"])
        /\ UNCHANGED <<arrays, sent, faults>>
     \/ PictureFails(i)
  /\ UNCHANGED <<PollerVars, Logs>>

\* lines 321-323 and 249-250: the attachment was delivered, or the post threw
UploadReturns(i) ==
  /\ loops[i].pc = "upload"
  /\ \/ /\ sent' = Append(sent, Delivery(loops[i], "image", loops[i].arg))
        /\ PostReply(i, loops[i], PictureSent)
        /\ UNCHANGED faults
     \/ PictureFails(i)
  /\ UNCHANGED <<PollerVars, Logs>>

\* lines 260-268 and 283: the reply was delivered, or the post threw
ReplyReturns(i) ==
  LET l == loops[i]
  IN  /\ l.pc = "reply"
      /\ \/ /\ sent' = Append(sent, Delivery(l, "reply", Signed(l.reply)))
            /\ Step(i, [l EXCEPT !.pc = "delay"])
            /\ UNCHANGED <<arrays, faults>>
         \/ Caught(i)
      /\ UNCHANGED <<PollerVars, Logs>>

\* lines 272-283: the failure reply was delivered
FailureReplyReturns(i) ==
  LET l == loops[i]
  IN  /\ l.pc = "failpost"
      /\ sent' = Append(sent, Delivery(l, "failure", ErrorText))
      /\ Step(i, [l EXCEPT !.pc = "delay"])
      /\ UNCHANGED <<arrays, faults>>
      /\ UNCHANGED <<PollerVars, Logs>>

\* line 272: the post of the failure reply threw inside the catch; the
\* rejection leaves processMessageQueue, whose caller (line 132) does not
\* await it: the activation is gone and line 286 is never reached.  (A
\* runtime that ends the process on an unhandled rejection leaves no drain
\* loop either.)
FailureReplyThrows(i) ==
  /\ loops[i].pc = "failpost"
  /\ faults > 0
  /\ faults' = faults - 1
  /\ loops' = Remove(loops, i)
  /\ arrays' = Collect(arrays, chatContexts, Remove(loops, i))
  /\ UNCHANGED <<chatContexts, chatCharacters, USE_OLLAMA, messageQueue,
                 isProcessingQueue, enqLog, sent>>
  /\ UNCHANGED <<PollerVars, Logs>>

\* lines 283 and 140: the pacing delay is over; back to the while test
DelayReturns(i) ==
  /\ loops[i].pc = "delay"
  /\ Becomes(WhileHead(Cur, i))
  /\ UNCHANGED <<chatCharacters, enqLog, sent, faults>>
  /\ UNCHANGED <<PollerVars, Logs>>

(***************************************************************************)
(* The messages on the bridge.                                             *)
(***************************************************************************)
Msg(guid, chat, text, time) ==
  [guid |-> guid, chat |-> chat, text |-> text, dateCreated |-> time,
   dateDelivered |-> 0]

Old == StartupTime - 1

New == StartupTime + 1

Bridges ==
  {<<Msg(1, "c1", <<"@ava", "hi">>, Old),
     Msg(2, "c1", <<"@character", "pirate">>, New),
     Msg(3, "c1", <<"@AVA", "hi">>, New),
     Msg(4, "c2", <<"@unhinge", "TRUE">>, New)>>,
   <<Msg(1, "c2", <<"@unhinge", "TRUE">>, New),
     Msg(2, "c1", <<"@ava", "hi">>, New),
     Msg(3, "c2", <<"@UNHINGE", "false">>, New)>>}

\* a message reaches the bridge
Arrive ==
  /\ pending # <<>>
  /\ bridge' = Append(bridge, Head(pending))
  /\ pending' = Tail(pending)
  /\ UNCHANGED <<ticks, seen, processedMessages, chatContexts, arrays,
                 chatCharacters, USE_OLLAMA, messageQueue, isProcessingQueue,
                 loops, enqLog, sent, asked, stored, lastTick, polls, faults>>

\* the process starts: the messages older than the start are on the bridge
InitWith(b, np, nf) ==
  /\ bridge = SelectSeq(b, LAMBDA m : MessageTime(m) < StartupTime)
  /\ pending = SelectSeq(b, LAMBDA m : MessageTime(m) >= StartupTime)
  /\ ticks = <<>>
  /\ seen = <<>>
  /\ processedMessages = <<>>
  /\ chatContexts = <<>>
  /\ arrays = <<>>
  /\ chatCharacters = [c \in Chats |-> NoPersona]
  /\ USE_OLLAMA = FALSE
  /\ messageQueue = <<>>
  /\ isProcessingQueue = FALSE
  /\ loops = <<>>
  /\ enqLog = <<>>
  /\ sent = <<>>
  /\ asked = <<>>
  /\ stored = <<>>
  /\ lastTick = NoTick
  /\ polls = np
  /\ faults = nf

Init == \E b \in Bridges : InitWith(b, MaxPolls, MaxFaults)

Next ==
  \/ Arrive
  \/ TickFire
  \/ \E i \in 1..Len(ticks) : ChatQueryReturns(i)
  \/ \E i \in 1..Len(ticks) : QueryFails(i)
  \/ \E i \in 1..Len(ticks) : MessageQueryReturns(i)
  \/ \E i \in 1..Len(ticks) : EnqueueReturns(i)
  \/ \E i \in 1..Len(loops) : SynthReturns(i)
  \/ \E i \in 1..Len(loops) : ConfirmReturns(i)
  \/ \E i \in 1..Len(loops) : CommandReturns(i)
  \/ \E i \in 1..Len(loops) : ParseReturns(i)
  \/ \E i \in 1..Len(loops) : BackendReturns(i)
  \/ \E i \in 1..Len(loops) : GenerateReturns(i)
  \/ \E i \in 1..Len(loops) : DownloadReturns(i)
  \/ \E i \in 1..Len(loops) : UploadReturns(i)
  \/ \E i \in 1..Len(loops) : ReplyReturns(i)
  \/ \E i \in 1..Len(loops) : FailureReplyReturns(i)
  \/ \E i \in 1..Len(loops) : FailureReplyThrows(i)
  \/ \E i \in 1..Len(loops) : DelayReturns(i)

Spec == Init /\ [][Next]_vars

\* one chat with a command and six normal messages
CtxBridges ==
  {<<Msg(1, "c1", <<"@character", "pirate">>, New),
     Msg(2, "c1", <<"@ava", "one">>, New),
     Msg(3, "c1", <<"@ava", "two">>, New),
     Msg(4, "c1", <<"@ava", "three">>, New),
     Msg(5, "c1", <<"@ava", "four">>, New),
     Msg(6, "c1", <<"@ava", "five">>, New),
     Msg(7, "c1", <<"@ava", "six">>, New)>>}

InitCtx == \E b \in CtxBridges : InitWith(b, CtxPolls, CtxFaults)

SpecCtx == InitCtx /\ [][Next]_vars


(***************************************************************************)
(* Properties.                                                             *)
(***************************************************************************)
Replies == {"reply", "confirm", "failure"}

\* C1: no message identifier is pushed on the processing queue twice,
\* however many ticks observe the message and whatever was pruned from the
\* ledgers in between.
C1_EnqueuedAtMostOnce ==
  \A i, j \in 1..Len(enqLog) : enqLog[i].guid = enqLog[j].guid => i = j

\* C2: the guard is never left set with no activation of the drain loop
\* running, on any path, error paths included.
C2_GuardAlwaysReleased == isProcessingQueue => Len(loops) > 0

\* C3: the replies the bridge accepted (AI reply, confirmation or failure
\* reply of each item) are in the order in which their items were enqueued.
C3_RepliesInEnqueueOrder ==
  \A i, j \in 1..Len(sent) :
    (i < j /\ sent[i].kind \in Replies /\ sent[j].kind \in Replies)
      => sent[i].n <= sent[j].n

\* two replies were delivered, the second for an item that was enqueued
\* while the drain loop was busy with an earlier one
C3_Witness ==
  \E i, j \in 1..Len(sent) :
    /\ i < j
    /\ sent[i].kind \in Replies
    /\ sent[j].kind \in Replies
    /\ sent[i].n < sent[j].n
    /\ Len(loops) = 1
    /\ Len(messageQueue) > 0

\* C6: at most one activation of the drain loop exists, hence at most one
\* item is in processing and at most one AI call or bridge delivery of queue
\* processing is in flight.
C6_OneDrainLoop ==
  /\ Len(loops) <= 1
  /\ Cardinality({i \in 1..Len(loops) : loops[i].item # NoItem}) <= 1

\* an item was enqueued while the drain loop was suspended in a backend call
C6_Witness ==
  /\ Len(loops) = 1
  /\ loops[1].pc = "ai"
  /\ Len(messageQueue) > 0
  /\ \E i \in 1..Len(ticks) : ticks[i].pc = "enq"


\* C5 as stated: each ledger holds at most the limit in every state.
C5_LedgersWithinLimit ==
  /\ Len(seen) <= LedgerLimit
  /\ Len(processedMessages) <= LedgerLimit

\* s is the last LedgerKeep entries of t
KeptRecent(s, t) ==
  /\ Len(s) = LedgerKeep
  /\ \A k \in 1..LedgerKeep : s[k] = t[Len(t) - LedgerKeep + k]

\* C5, amended: a poll tick that ends without an error leaves each ledger
\* with at most the limit, and a ledger that held more than the limit at the
\* end of the tick with exactly its most recently added entries.
C5_PrunedAtTickEnd ==
  [][(Len(ticks') < Len(ticks) /\ lastTick'.end = "ok") =>
       /\ Len(seen') <= LedgerLimit
       /\ Len(processedMessages') <= LedgerLimit
       /\ SubSeq(lastTick'.seenIn, 1, Len(seen)) = seen
       /\ SubSeq(lastTick'.procIn, 1, Len(processedMessages)) = processedMessages
       /\ Len(lastTick'.seenIn) > LedgerLimit => KeptRecent(seen', lastTick'.seenIn)
       /\ Len(lastTick'.procIn) > LedgerLimit
            => KeptRecent(processedMessages', lastTick'.procIn)]_vars

\* a tick has just ended without an error and pruned both ledgers
C5_Witness ==
  /\ lastTick.end = "ok"
  /\ Len(lastTick.seenIn) > LedgerLimit
  /\ Len(lastTick.procIn) > LedgerLimit
  /\ KeptRecent(seen, lastTick.seenIn)
  /\ KeptRecent(processedMessages, lastTick.procIn)

\* C7: an activation takes up the next item only out of the pacing delay,
\* whatever the outcome of the item before.
C7_DelayBeforeNextItem ==
  [][\A i \in 1..Len(loops) :
       (i <= Len(loops') /\ loops'[i].item.n # loops[i].item.n)
         => loops[i].pc = "delay"]_vars

\* C8: when the processing of an item has raised, the next step of the
\* drain loop delivers the failure reply for that item, does not put the
\* item back, and leaves the loop running towards the items behind it.
C8_FailureHandledPerItem ==
  [][\A i \in 1..Len(loops) :
       (loops[i].pc = "failpost" /\ loops' # loops) =>
          /\ Len(loops') = Len(loops)
          /\ loops'[i].pc = "delay"
          /\ loops'[i].item = loops[i].item
          /\ sent' = Append(sent, Delivery(loops[i], "failure", ErrorText))
          /\ messageQueue' = messageQueue]_vars

Max(S) == CHOOSE x \in S : \A y \in S : x >= y

\* the backend that the @unhinge commands enqueued before item n select
ExpectedBackend(n) ==
  LET cmds == {k \in 1..(n - 1) : ParseKind(enqLog[k].text) = "unhinge"}
  IN  IF cmds = {} THEN "hosted"
      ELSE IF CmdArg(enqLog[Max(cmds)].text, "@unhinge") \in {<<"true">>, <<"TRUE">>}
           THEN "local"
      ELSE "hosted"

\* C9: every chat request goes to the backend selected by the last @unhinge
\* command before it in queue order, whichever chats sent the two.
C9_BackendFollowsLastUnhinge ==
  \A k \in 1..Len(asked) : asked[k].backend = ExpectedBackend(asked[k].n)

\* a chat was served by the local backend after '@unhinge true' of another
\* chat
C9_Witness ==
  \E i \in 1..Len(asked) :
    /\ asked[i].backend = "local"
    /\ \E k \in 1..(asked[i].n - 1) :
         /\ ParseKind(enqLog[k].text) = "unhinge"
         /\ enqLog[k].chatGuid # asked[i].chat

\* C10: for a normal message enqueued right after an @character command of
\* its chat: the confirmation precedes the AI reply, the request carries the
\* persona the command stored, and the context of the request holds nothing
\* but the user turn of the message.
C10_CharacterThenMessage ==
  \A k \in 1..Len(asked) :
    LET r == asked[k]
    IN  (/\ r.n > 1
         /\ ParseKind(enqLog[r.n - 1].text) = "character"
         /\ enqLog[r.n - 1].chatGuid = r.chat) =>
           /\ \A i, j \in 1..Len(sent) :
                (/\ sent[i].n = r.n - 1 /\ sent[i].kind = "confirm"
                 /\ sent[j].n = r.n /\ sent[j].kind = "reply") => i < j
           /\ \A m \in 1..Len(stored) :
                stored[m].n = r.n - 1 => r.persona = stored[m].persona
           /\ r.context = <<Turn("user", enqLog[r.n].text)>>

\* the deliveries to chat c, in order
SentTo(c) == SelectSeq(sent, LAMBDA d : d.chat = c)

\* the last six deliveries to chat c are AI replies to six successive items
SixExchanges(c) ==
  LET d == SentTo(c)
  IN  /\ Len(d) >= 6
      /\ \A m \in (Len(d) - 5)..Len(d) : d[m].kind = "reply"
      /\ \A m \in (Len(d) - 4)..Len(d) : d[m].n = d[m - 1].n + 1
      /\ \A i \in 1..Len(loops) : loops[i].item.chatGuid # c

\* C4: a context never holds more than ten turns, and after six successive
\* successful exchanges of a chat it holds the ten most recent turns, oldest
\* first.
C4_ContextWindow ==
  /\ \A r \in DOMAIN arrays : Len(arrays[r]) <= CtxMax
  /\ \A c \in Chats :
       (HasChat(chatContexts, c) /\ SixExchanges(c)) =>
          LET d   == SentTo(c)
              ctx == arrays[RefOf(chatContexts, c)]
          IN  /\ Len(ctx) = CtxMax
              /\ \A m \in 1..5 :
                   /\ ctx[2 * m - 1] = Turn("user", enqLog[d[Len(d) - 5 + m].n].text)
                   /\ ctx[2 * m].role = "assistant"
                   /\ Signed(ctx[2 * m].content) = d[Len(d) - 5 + m].body

\* C11: the persona request of an @character command goes to the hosted
\* backend, for either value of USE_OLLAMA.
C11_SynthAlwaysHosted ==
  /\ \A i \in 1..Len(loops) : loops[i].pc = "synth" => loops[i].backend = "hosted"
  /\ \A k \in 1..Len(stored) : stored[k].backend = "hosted"

PictureStages == {"generate", "download", "upload"}

\* the picture request an activation is working on is the one the backend
\* made: the words after the sentinel, or the description of the tool call
PictureRequested(l) ==
  /\ ~HasSentinel(l.arg)
  /\ IF l.backend = "local" THEN l.reply = <<SENTINEL>> \o l.arg
     ELSE \E a \in Answers("hosted") : a.tool_calls = <<l.arg>>

\* the deliveries of picture requests: one image per item at most, with the
\* success confirmation after it, and no reply that shows the sentinel
PictureDeliveries ==
  /\ \A j \in 1..Len(sent) : sent[j].kind = "reply" => ~HasSentinel(sent[j].body)
  /\ \A j, k \in 1..Len(sent) :
       (sent[j].kind = "image" /\ sent[k].n = sent[j].n) =>
          /\ sent[k].kind = "image" => j = k
          /\ sent[k].kind = "reply" => (j < k /\ sent[k].body = PictureSent)

\* one step of the activation l out of a stage of the image pipeline
PictureStep(l, m) ==
  \/ /\ <<l.pc, m.pc>> \in {<<"generate", "download">>, <<"download", "upload">>}
     /\ m.arg = l.arg
     /\ sent' = sent
  \/ /\ l.pc = "upload"
     /\ m.pc = "reply"
     /\ m.reply = PictureSent
     /\ sent' = Append(sent, Delivery(l, "image", l.arg))
  \/ /\ m.pc = "reply"
     /\ m.reply = PictureFailed
     /\ sent' = sent

\* C12: a reply of the local backend that carries the sentinel followed by
\* a description is resolved like a tool call of the hosted backend with that
\* description: one image attempt with the description, then the success
\* confirmation or the image failure message as the reply, never the text
\* with the sentinel.
C12_SentinelLikeToolCall ==
  [][/\ PictureDeliveries'
     /\ \A i \in 1..Len(loops') :
          loops'[i].pc \in PictureStages => PictureRequested(loops'[i])
     /\ \A i \in 1..Len(loops') :
          (loops'[i].pc = "generate" /\ i <= Len(loops) /\ loops[i] # loops'[i])
             => (loops[i].pc = "ai" /\ loops[i].item = loops'[i].item)
     /\ \A i \in 1..Len(loops) :
          (loops[i].pc \in PictureStages /\ loops' # loops)
             => (Len(loops') = Len(loops) /\ loops'[i].item = loops[i].item
                 /\ PictureStep(loops[i], loops'[i]))]_vars

\* the local backend asked for a picture with the sentinel: the image and
\* then the success confirmation were delivered
C12_Witness ==
  \E j, k \in 1..Len(sent) :
    /\ j < k
    /\ sent[j].kind = "image"
    /\ sent[j].body = <<"bike">>
    /\ sent[k].kind = "reply"
    /\ sent[k].n = sent[j].n
    /\ sent[k].body = PictureSent
    /\ \E a \in 1..Len(asked) : asked[a].n = sent[j].n /\ asked[a].backend = "local"

\* the messages the bridge holds
OnBridge == {bridge[k] : k \in 1..Len(bridge)}

Enqueued(g) == \E k \in 1..Len(enqLog) : enqLog[k].guid = g

\* C13: a tick that fails changes neither the ledgers nor the queue nor the
\* timer nor the other ticks in flight, and a triggering message newer than
\* the start that was never enqueued is enqueued by the step of a tick that
\* marks it seen.
C13_FailedTickRetried ==
  [][/\ (Len(ticks') < Len(ticks) /\ lastTick'.end = "error") =>
          /\ seen' = seen
          /\ processedMessages' = processedMessages
          /\ messageQueue' = messageQueue
          /\ enqLog' = enqLog
          /\ polls' = polls
          /\ \E i \in 1..Len(ticks) : ticks' = Remove(ticks, i)
     /\ \A m \in OnBridge :
          (/\ ~InSeq(m.guid, seen)
           /\ InSeq(m.guid, seen')
           /\ MessageTime(m) >= StartupTime
           /\ ContainsTrigger(m.text)
           /\ ~Enqueued(m.guid)) =>
             /\ enqLog' = Append(enqLog, [guid |-> m.guid, chatGuid |-> m.chat,
                                          text |-> m.text])
             /\ Len(messageQueue') + Len(loops') > 0]_vars

\* a tick failed; a tick started after that has enqueued a message that had
\* never been enqueued, hence was not marked seen, when the tick failed
C13_Witness ==
  /\ lastTick.end = "error"
  /\ polls < lastTick.polls
  /\ Len(enqLog) > lastTick.enqueued
  /\ \A k \in 1..lastTick.enqueued :
       enqLog[k].guid # enqLog[lastTick.enqueued + 1].guid

\* the ledger `seen` as the step leaves it, before the pruning at the end of
\* a tick
SeenAfter ==
  IF Len(ticks') < Len(ticks) /\ lastTick'.end = "ok" THEN lastTick'.seenIn
  ELSE seen'

\* C14: no message older than the start of the process is ever enqueued,
\* whatever its text, and the step of a tick that scans the messages of a
\* chat marks every such message of the chat seen.
C14_OldNeverEnqueued ==
  [][/\ \A m \in OnBridge :
          MessageTime(m) < StartupTime =>
            \A k \in 1..Len(enqLog') : enqLog'[k].guid # m.guid
     /\ \A i \in 1..Len(ticks) :
          MessageQueryReturns(i) =>
            \A m \in OnBridge :
              (m.chat = ticks[i].chat /\ MessageTime(m) < StartupTime)
                => InSeq(m.guid, SeenAfter)]_vars

\* every tick has finished: a message older than the start that carries a
\* trigger was marked seen and not enqueued, a newer one was enqueued
C14_Witness ==
  /\ polls = 0
  /\ ticks = <<>>
  /\ lastTick.end = "ok"
  /\ Len(enqLog) > 0
  /\ \E m \in OnBridge :
       /\ MessageTime(m) < StartupTime
       /\ ContainsTrigger(m.text)
       /\ InSeq(m.guid, lastTick.seenIn)
       /\ ~Enqueued(m.guid)

\* C15 as stated: when a poll tick has ended, however it ended, the context
\* store holds at most the limit of chats.
C15_ChatsWithinLimitAfterTick ==
  [][Len(ticks') < Len(ticks) => Len(chatContexts') <= MaxChats]_vars

\* C15, amended: a poll tick that ends without an error leaves the context
\* store with at most the limit of chats, the chats removed being the ones
\* whose keys were inserted earliest; a tick that fails leaves the store as
\* it was.
C15_ChatsPrunedAtTickEnd ==
  [][/\ (Len(ticks') < Len(ticks) /\ lastTick'.end = "ok") =>
          /\ lastTick'.chatsIn = chatContexts
          /\ Len(chatContexts') <= MaxChats
          /\ Len(chatContexts) <= MaxChats => chatContexts' = chatContexts
          /\ Len(chatContexts) > MaxChats => Len(chatContexts') = MaxChats
          /\ \A k \in 1..Len(chatContexts') :
               chatContexts'[k] =
                 chatContexts[Len(chatContexts) - Len(chatContexts') + k]
     /\ (Len(ticks') < Len(ticks) /\ lastTick'.end = "error") =>
          chatContexts' = chatContexts]_vars

\* a tick has just ended without an error and evicted the chat whose key
\* was inserted first
C15_Witness ==
  /\ lastTick.end = "ok"
  /\ Len(lastTick.chatsIn) > MaxChats
  /\ Len(chatContexts) = MaxChats
  /\ ~HasChat(chatContexts, lastTick.chatsIn[1].chat)
  /\ chatContexts[MaxChats] = lastTick.chatsIn[Len(lastTick.chatsIn)]

C17_SynthFailureFallsBack ==
  [][/\ \A i \in 1..Len(loops) :
          (loops[i].pc = "synth" /\ loops' # loops) =>
             LET l == loops[i]
                 c == l.item.chatGuid
             IN  /\ Len(loops') = Len(loops)
                 /\ loops'[i].item = l.item
                 /\ loops'[i].pc = "confirm"
                 /\ sent' = sent
                 /\ arrays'[l.ctx] = <<>>
                 /\ HasChat(chatContexts', c) => arrays'[RefOf(chatContexts', c)] = <<>>
                 /\ faults' < faults =>
                      chatCharacters'[c] =
                        [src |-> "fallback", desc |-> CmdArg(l.item.text, "@character")]
     /\ \A i \in 1..Len(loops) :
          (loops[i].pc = "confirm" /\ loops' # loops /\ faults' = faults) =>
             /\ loops'[i].pc = "cmdret"
             /\ sent' = Append(sent, Delivery(loops[i], "confirm",
                                 ConfirmText(CmdArg(loops[i].item.text, "@character"))))]_vars

\* a persona request failed: the fallback persona is the override of the
\* chat, the confirmation is the only delivery of the command, and the
\* drain loop has gone on
C17_Witness ==
  \E m \in 1..Len(stored) :
    /\ stored[m].persona.src = "fallback"
    /\ chatCharacters[stored[m].chat] = stored[m].persona
    /\ \E j \in 1..Len(sent) : sent[j].n = stored[m].n /\ sent[j].kind = "confirm"
    /\ \A j \in 1..Len(sent) : sent[j].n = stored[m].n => sent[j].kind = "confirm"
    /\ \A i \in 1..Len(loops) : loops[i].item.n # stored[m].n

\* C18: the override of a chat changes only in the step that ends the
\* persona request of an @character command of that chat.
C18_OverrideOnlyByCharacter ==
  [][\A c \in Chats :
       chatCharacters'[c] # chatCharacters[c] =>
         \E i \in 1..Len(loops) :
           /\ loops[i].pc = "synth"
           /\ loops[i].item.chatGuid = c
           /\ ParseKind(loops[i].item.text) = "character"
           /\ loops'[i].pc = "confirm"]_vars

\* a chat has an override; since then an @unhinge command of another chat
\* was processed, a tick pruned the ledgers and evicted the chat from the
\* context store
C18_Witness ==
  \E c \in Chats :
    /\ chatCharacters[c] # NoPersona
    /\ USE_OLLAMA
    /\ lastTick.end = "ok"
    /\ Len(lastTick.seenIn) > LedgerLimit
    /\ HasChat(lastTick.chatsIn, c)
    /\ ~HasChat(chatContexts, c)
    /\ \E m \in 1..Len(stored), k \in 1..Len(enqLog) :
         /\ stored[m].chat = c
         /\ stored[m].n < k
         /\ ParseKind(enqLog[k].text) = "unhinge"
         /\ enqLog[k].chatGuid # c

\* C19: at every suspension point, a guard that is not set means an empty
\* queue, and a queue that is not empty has an activation of the drain loop
\* to process it.
C19_NoLostWakeup ==
  /\ ~isProcessingQueue => messageQueue = <<>>
  /\ messageQueue # <<>> => Len(loops) > 0

\* an identifier of the ledger s is not in the ledger t
Dropped(s, t) == \E k \in 1..Len(s) : ~InSeq(s[k], t)

\* C20: the step of a tick that enqueues a message finds it in neither
\* ledger, marks it in both and appends it to the queue, all in that one
\* step, and an identifier leaves a ledger only in the pruning at the end of
\* a tick: between two prunings no tick, overlapping or not, enqueues a
\* message that a tick has enqueued.
C20_OverlapEnqueuesOnce ==
  [][/\ enqLog' # enqLog =>
          LET g == enqLog'[Len(enqLog')].guid
          IN  /\ Len(enqLog') = Len(enqLog) + 1
              /\ SubSeq(enqLog', 1, Len(enqLog)) = enqLog
              /\ ~InSeq(g, seen)
              /\ ~InSeq(g, processedMessages)
              /\ InSeq(g, seen')
              /\ InSeq(g, processedMessages')
              /\ \/ /\ messageQueue' # <<>>
                    /\ messageQueue'[Len(messageQueue')].n = Len(enqLog')
                 \/ \E i \in 1..Len(loops') : loops'[i].item.n = Len(enqLog')
     /\ (Dropped(seen, seen') \/ Dropped(processedMessages, processedMessages')) =>
          /\ Len(ticks') < Len(ticks)
          /\ lastTick'.end = "ok"
          /\ \/ Len(lastTick'.seenIn) > LedgerLimit
             \/ Len(lastTick'.procIn) > LedgerLimit]_vars

\* two ticks are in flight in the same chat: the first has enqueued the
\* message before the ones it has still to go through; the second has gone
\* through that message, found it marked, and enqueued the next one, which
\* the first finds marked in its turn.  Each was enqueued once.
C20_Witness ==
  /\ Len(ticks) = 2
  /\ ticks[1].pc = "enq"
  /\ ticks[2].pc = "enq"
  /\ ticks[1].chat = ticks[2].chat
  /\ Len(ticks[1].msgs) = 1
  /\ ticks[2].msgs = <<>>
  /\ lastTick.end = "none"
  /\ Len(enqLog) = 2
  /\ enqLog[2].guid = ticks[1].msgs[1].guid
  /\ enqLog[1].guid # enqLog[2].guid
  /\ enqLog[1].chatGuid = ticks[1].chat
  /\ InSeq(enqLog[1].guid, seen) /\ InSeq(enqLog[1].guid, processedMessages)
  /\ InSeq(enqLog[2].guid, seen) /\ InSeq(enqLog[2].guid, processedMessages)

\* C21: in the step that delivers the AI reply of a normal message, the
\* context store has a buffer for the chat of the message, and the buffer
\* ends with the user turn of the message followed by the assistant turn
\* with the reply, whatever the poller pruned while the item was in flight.
C21_TurnsInStoreAtCompletion ==
  [][\A i \in 1..Len(loops) :
       (/\ loops[i].pc = "reply"
        /\ i <= Len(loops')
        /\ loops'[i].item = loops[i].item
        /\ loops'[i].pc = "delay") =>
          LET l == loops[i]
              c == l.item.chatGuid
          IN  /\ HasChat(chatContexts', c)
              /\ LET ctx == arrays'[RefOf(chatContexts', c)]
                 IN  /\ Len(ctx) >= 2
                     /\ ctx[Len(ctx) - 1] = Turn("user", l.item.text)
                     /\ ctx[Len(ctx)] = Turn("assistant", l.reply)]_vars

====
